---- MODULE Spec2Model ----
(***************************************************************************)
(* Model of src/otimizacao.py: the aquaculture planning engine.            *)
(*                                                                         *)
(* The program computes with Python floats; the model computes with exact  *)
(* integers in fixed-point units, and with fractions kept as               *)
(* [num, den] pairs (den > 0) wherever the code divides:                   *)
(*   money ............................ centavos (0.01 R$)                 *)
(*   valor_mercado_kg, custo_racao_kg . R$ per kg                          *)
(*   peso_final_ideal_kg, meta ........ kg                                 *)
(*   peso_inicial ..................... hectograms (the code: grams/1000)  *)
(*   conversao_alimentar .............. tenths                             *)
(*   taxa_mortalidade, fator_sistema .. percent                            *)
(*   volume ........................... m3, densidade_max_kg_m3: kg/m3     *)
(* With these units weight gain (hg) * conversion (tenths) * feed price    *)
(* (R$/kg) is a whole number of centavos. Float rounding is outside the    *)
(* model.                                                                  *)
(***************************************************************************)
EXTENDS Integers, Sequences, FiniteSets, TLC

\* ------------------------------------------------------------------ bounds
MaxEspecies == 2
MaxTanques == 2

\* ------------------------------------------------- SistemaProdutivo.__init__
FatorExtensivo == 10
FatorSemiIntensivo == 40
FatorIntensivo == 100

SistemaProdutivo(capital, qtd_tanques, vol_tanque, custo_fixo, sistema_opcao) ==
    [capital_giro      |-> capital,
     qtd_tanques       |-> qtd_tanques,
     vol_por_tanque    |-> vol_tanque,
     custo_fixo_mensal |-> custo_fixo,
     volume_total      |-> qtd_tanques * vol_tanque,
     fator_sistema     |-> IF sistema_opcao = 1 THEN FatorExtensivo
                           ELSE IF sistema_opcao = 2 THEN FatorSemiIntensivo
                           ELSE FatorIntensivo]

\* ------------------------------------------------------------ arithmetic
\* Python's int(x / y) for y > 0: truncation toward zero.
IntDiv(n, d) == IF n >= 0 THEN n \div d ELSE -((-n) \div d)

\* a fraction num/den with den > 0
Frac(n, d) == [num |-> n, den |-> d]
FracGeq(a, b) == a.num * b.den >= b.num * a.den
FracGt(a, b) == a.num * b.den > b.num * a.den
FracEq(a, b) == a.num * b.den = b.num * a.den

\* a fraction in lowest terms
RECURSIVE MDC(_, _)
MDC(a, b) == IF b = 0 THEN a ELSE MDC(b, a % b)
Abs(n) == IF n >= 0 THEN n ELSE -n
Reduzida(n, d) ==
    LET g == MDC(Abs(n), d)
    IN  Frac(n \div g, d \div g)

\* ------------------------------------------------------- species catalogue
\* The rows ler_tabela returns, before a name is attached.
\* A zero price or a zero feed cost is tried on one row shape only, which keeps
\* the catalogue set small.
Perfis ==
    { p \in [valor_mercado_kg    : {0, 12},
             peso_final_ideal_kg : {1, 2},
             peso_inicial        : {1},
             taxa_mortalidade    : {10},
             densidade_max_kg_m3 : {3},
             conversao_alimentar : {15},
             tempo_ciclo_meses   : {3, 6},
             custo_alevino_un    : {0},
             custo_racao_kg      : {0, 4}] :
        /\ p.valor_mercado_kg = 0
             => (p.peso_final_ideal_kg = 1 /\ p.tempo_ciclo_meses = 3 /\ p.custo_racao_kg = 4)
        /\ p.custo_racao_kg = 0
             => (p.peso_final_ideal_kg = 1 /\ p.tempo_ciclo_meses = 3) }

ComNome(p, n) ==
    [nome |-> n,
     valor_mercado_kg    |-> p.valor_mercado_kg,
     peso_final_ideal_kg |-> p.peso_final_ideal_kg,
     peso_inicial        |-> p.peso_inicial,
     taxa_mortalidade    |-> p.taxa_mortalidade,
     densidade_max_kg_m3 |-> p.densidade_max_kg_m3,
     conversao_alimentar |-> p.conversao_alimentar,
     tempo_ciclo_meses   |-> p.tempo_ciclo_meses,
     custo_alevino_un    |-> p.custo_alevino_un,
     custo_racao_kg      |-> p.custo_racao_kg]

\* the species of the reference scenario
EspecieA ==
    [nome |-> 1,
     valor_mercado_kg    |-> 10,
     peso_final_ideal_kg |-> 1,
     peso_inicial        |-> 1,
     taxa_mortalidade    |-> 10,
     densidade_max_kg_m3 |-> 50,
     conversao_alimentar |-> 15,
     tempo_ciclo_meses   |-> 6,
     custo_alevino_un    |-> 50,
     custo_racao_kg      |-> 4]

CatalogoCenario == << EspecieA >>

\* catalogues: rows with unique names (the name is the row's position)
Catalogos ==
    { [i \in 1..Len(s) |-> ComNome(s[i], i)] :
        s \in UNION { [1..n -> Perfis] : n \in 0..MaxEspecies } }
    \cup { CatalogoCenario }

\* the producer's validated form inputs
EntradaCenario ==
    [capital |-> 1000000, qtd_tanques |-> 2, vol_tanque |-> 5,
     custo_fixo |-> 20000, sistema_opcao |-> 3, meta_kg |-> 0]

EntradasGerais ==
    [capital       : {1500, 3000},
     qtd_tanques   : 1..MaxTanques,
     vol_tanque    : {1},
     custo_fixo    : {0, 400},
     sistema_opcao : {1, 2, 3},
     meta_kg       : {0, 2}]

Entradas(db) ==
    EntradasGerais \cup (IF db = CatalogoCenario THEN {EntradaCenario} ELSE {})

\* ------------------------------------------------------- simular_cenarios
\* lines 83-90: cost reconstruction
ganho_peso_sem_peso_inicial(esp) == esp.peso_final_ideal_kg * 10
ganho_peso(esp) == esp.peso_final_ideal_kg * 10 - esp.peso_inicial
consumo_racao_kg_por_peixe(esp) == ganho_peso(esp) * esp.conversao_alimentar
custo_alim_un(esp) == consumo_racao_kg_por_peixe(esp) * esp.custo_racao_kg
custo_var_unit(esp) == esp.custo_alevino_un + custo_alim_un(esp)
custo_fixo_ciclo(s, esp) == s.custo_fixo_mensal * esp.tempo_ciclo_meses

\* lines 94-96: physical ceiling
max_fisico(s, esp) ==
    IntDiv(s.volume_total * esp.densidade_max_kg_m3 * s.fator_sistema,
           100 * esp.peso_final_ideal_kg)

\* line 100
orcamento_operacional_sem_custo_fixo(s, esp) == s.capital_giro
orcamento_operacional(s, esp) == s.capital_giro - custo_fixo_ciclo(s, esp)

\* line 107, defined when custo_var_unit(esp) # 0
max_financeiro(s, esp) == IntDiv(orcamento_operacional(s, esp), custo_var_unit(esp))

\* line 111
qtd_real_maior(s, esp) ==
    IF max_fisico(s, esp) >= max_financeiro(s, esp)
    THEN max_fisico(s, esp) ELSE max_financeiro(s, esp)
qtd_real(s, esp) ==
    IF max_fisico(s, esp) <= max_financeiro(s, esp)
    THEN max_fisico(s, esp) ELSE max_financeiro(s, esp)

\* line 145
gargalo_empate_financeiro(s, esp) ==
    IF max_financeiro(s, esp) <= max_fisico(s, esp) THEN "FINANCEIRO" ELSE "FISICO"
gargalo(s, esp) ==
    IF max_financeiro(s, esp) < max_fisico(s, esp) THEN "FINANCEIRO" ELSE "FISICO"

Inviavel(esp, motivo) ==
    [especie |-> esp.nome, status |-> "INVIAVEL", motivo |-> motivo]

Levanta(erro) == [status |-> "RAISE", erro |-> erro]

\* lines 117-167: the outcome of a species that can be stocked. peixes_finais is
\* a local of the code that the returned dict does not carry; the record keeps it.
Consolidar(s, esp) ==
    LET qtd == qtd_real(s, esp)
        peixes_finais == IntDiv(qtd * (100 - esp.taxa_mortalidade), 100)
        biomassa_vendida_kg == peixes_finais * esp.peso_final_ideal_kg
        investimento_alevinos == qtd * esp.custo_alevino_un
        investimento_racao == qtd * consumo_racao_kg_por_peixe(esp) * esp.custo_racao_kg
        custo_total_ciclo ==
            investimento_alevinos + investimento_racao + custo_fixo_ciclo(s, esp)
        receita_bruta == biomassa_vendida_kg * esp.valor_mercado_kg * 100
        lucro_liquido == receita_bruta - custo_total_ciclo
    IN  IF esp.valor_mercado_kg = 0 THEN Levanta("ZeroDivisionError")   \* line 131
        ELSE IF custo_total_ciclo = 0 THEN Levanta("ZeroDivisionError") \* line 132
        ELSE IF esp.tempo_ciclo_meses = 0 THEN Levanta("ZeroDivisionError") \* line 133
        ELSE
        [especie            |-> esp.nome,
         dados_tec          |-> esp,
         qtd_povoamento     |-> qtd,
         peixes_finais      |-> peixes_finais,
         biomassa_kg        |-> biomassa_vendida_kg,
         custo_alevinos     |-> investimento_alevinos,
         custo_racao        |-> investimento_racao,
         custo_fixo         |-> custo_fixo_ciclo(s, esp),
         custo_total        |-> custo_total_ciclo,
         custo_kg_produzido |-> IF biomassa_vendida_kg > 0
                                THEN Frac(custo_total_ciclo, biomassa_vendida_kg)
                                ELSE Frac(0, 1),
         receita            |-> receita_bruta,
         lucro_liquido      |-> lucro_liquido,
         lucro_mensal       |-> Frac(lucro_liquido, esp.tempo_ciclo_meses),
         roi                |-> Frac(lucro_liquido * 100, custo_total_ciclo),
         payback_meses      |-> IF lucro_liquido > 0
                                THEN Frac(custo_total_ciclo * esp.tempo_ciclo_meses,
                                          lucro_liquido)
                                ELSE Frac(0, 1),
         racao_ton          |-> Frac(qtd * consumo_racao_kg_por_peixe(esp), 100000),
         ocupacao           |-> Frac(qtd * 100, max_fisico(s, esp)),
         gargalo            |-> gargalo(s, esp),
         ponto_equilibrio   |-> Frac(custo_total_ciclo, esp.valor_mercado_kg),
         status             |-> "VIAVEL"]

\* lines 81-167: one pass of the loop body, for one species
SimularEspecie(s, esp) ==
    IF orcamento_operacional(s, esp) <= 0
    THEN Inviavel(esp, "Custo fixo excede capital.")
    ELSE IF custo_var_unit(esp) = 0 THEN Levanta("ZeroDivisionError")   \* line 107
    ELSE IF qtd_real(s, esp) <= 0 THEN Inviavel(esp, "Capital insuficiente.")
    ELSE Consolidar(s, esp)

\* line 170: the list comprehension
Viaveis(rs) == SelectSeq(rs, LAMBDA r : r.status = "VIAVEL")

\* line 170: sorted(..., key = lucro_mensal, reverse = True); the sort is stable,
\* so an outcome goes after every outcome whose key is not smaller.
RECURSIVE Inserir(_, _)
Inserir(r, ord) ==
    IF ord = << >> THEN << r >>
    ELSE IF FracGeq(Head(ord).lucro_mensal, r.lucro_mensal)
         THEN << Head(ord) >> \o Inserir(r, Tail(ord))
         ELSE << r >> \o ord

Ordenar_sem_ordenar(rs) == rs
RECURSIVE Ordenar(_)
Ordenar(rs) ==
    IF rs = << >> THEN << >>
    ELSE Inserir(rs[Len(rs)], Ordenar(SubSeq(rs, 1, Len(rs) - 1)))

\* ------------------------------------------------------ otimizar_mix_ideal
Soma(f, n) ==
    LET RECURSIVE Ate(_)
        Ate(k) == IF k = 0 THEN 0 ELSE f[k] + Ate(k - 1)
    IN  Ate(n)

Produto(f, n) ==
    LET RECURSIVE Ate(_)
        Ate(k) == IF k = 0 THEN 1 ELSE f[k] * Ate(k - 1)
    IN  Ate(n)

\* lines 197-200: the unit margin, a fraction over max_fisico
lucro_un_sem_custo_fixo(s, esp) ==
    Frac((esp.peso_final_ideal_kg * esp.valor_mercado_kg * 100 - custo_var_unit(esp))
            * (IF max_fisico(s, esp) > 0 THEN max_fisico(s, esp) ELSE 1),
         IF max_fisico(s, esp) > 0 THEN max_fisico(s, esp) ELSE 1)
lucro_un(s, esp) ==
    LET receita_un == esp.peso_final_ideal_kg * esp.valor_mercado_kg * 100
        mf == max_fisico(s, esp)
    IN  IF mf > 0
        THEN Frac((receita_un - custo_var_unit(esp)) * mf - custo_fixo_ciclo(s, esp), mf)
        ELSE Frac(receita_un - custo_var_unit(esp), 1)

\* lines 202-210: one row of model_data
LinhaModelo(s, esp) ==
    [nome        |-> esp.nome,
     lucro_un    |-> lucro_un(s, esp),
     custo_un    |-> custo_var_unit(esp),
     peso_final  |-> esp.peso_final_ideal_kg,
     tempo_ciclo |-> esp.tempo_ciclo_meses,
     max_fisico  |-> max_fisico(s, esp)]

\* lines 181-210: model_data holds the species with room for at least one fish
ModelData(s, db) ==
    LET elegiveis == SelectSeq(db, LAMBDA esp : max_fisico(s, esp) > 0)
    IN  [i \in 1..Len(elegiveis) |-> LinhaModelo(s, elegiveis[i])]

\* the common denominator of the occupancy shares and of the unit margins
Denominador(md) == Produto([i \in 1..Len(md) |-> md[i].max_fisico], Len(md))

\* line 216: integer variables with lowBound = 0. The space constraint keeps
\* every quantity at or below its max_fisico, so the box loses no solution.
Atribuicoes(md) ==
    LET teto == IF Len(md) = 0 THEN 0
                ELSE CHOOSE m \in {md[i].max_fisico : i \in 1..Len(md)} :
                        \A i \in 1..Len(md) : md[i].max_fisico <= m
    IN  { q \in [1..Len(md) -> 0..teto] : \A i \in 1..Len(md) : q[i] <= md[i].max_fisico }

\* line 219: the objective, times Denominador(md)
Objetivo(md, q) ==
    LET d == Denominador(md)
    IN  Soma([i \in 1..Len(md) |-> md[i].lucro_un.num * q[i] * (d \div md[i].max_fisico)],
             Len(md))

\* line 222
RestricaoOrcamento_ausente(s, md, q) == TRUE
RestricaoOrcamento(s, md, q) ==
    Soma([i \in 1..Len(md) |-> md[i].custo_un * q[i]], Len(md)) <= s.capital_giro

\* line 226
RestricaoEspaco(md, q) ==
    LET d == Denominador(md)
    IN  Soma([i \in 1..Len(md) |-> q[i] * (d \div md[i].max_fisico)], Len(md)) <= d

\* lines 229-230
RestricaoMeta_ausente(md, meta_minima_kg, q) == TRUE
RestricaoMeta(md, meta_minima_kg, q) ==
    meta_minima_kg > 0 =>
        Soma([i \in 1..Len(md) |-> q[i] * md[i].peso_final], Len(md)) >= meta_minima_kg

\* lines 213-230: the problem handed to the solver
Factiveis(s, md, meta_minima_kg) ==
    { q \in Atribuicoes(md) :
        /\ RestricaoOrcamento(s, md, q)
        /\ RestricaoEspaco(md, q)
        /\ RestricaoMeta(md, meta_minima_kg, q) }

\* line 233: the integer-LP solver, by its contract: the optimal assignments of
\* the feasible set F
Otimas(md, F) ==
    LET valores == { Objetivo(md, q) : q \in F }
        melhor == CHOOSE v \in valores : \A w \in valores : v >= w
    IN  { q \in F : Objetivo(md, q) = melhor }

\* lines 244-259: the species the solution stocks
Mix(md, q) ==
    LET escolhidas == SelectSeq([i \in 1..Len(md) |-> i], LAMBDA i : q[i] > 0)
    IN  [k \in 1..Len(escolhidas) |->
            LET i == escolhidas[k]
            IN  [especie  |-> md[i].nome,
                 qtd      |-> q[i],
                 peso     |-> q[i] * md[i].peso_final,
                 ciclo    |-> md[i].tempo_ciclo,
                 ocupacao |-> Frac(q[i] * 100, md[i].max_fisico)]]

\* lines 237-272: the result built from an optimal assignment
ResultadoOtimo_sem_custo_fixo(s, md, q) ==
    LET mix == Mix(md, q)
        n == Len(mix)
        custo_total_mix ==
            Soma([i \in 1..Len(md) |-> q[i] * md[i].custo_un], Len(md))
        biomassa_total == Soma([k \in 1..n |-> mix[k].peso], n)
        max_ciclo ==
            IF n = 0 THEN 0
            ELSE CHOOSE c \in {mix[k].ciclo : k \in 1..n} :
                    \A k \in 1..n : mix[k].ciclo <= c
        lucro_total == Reduzida(Objetivo(md, q), Denominador(md))
    IN  [status         |-> "OTIMO",
         lucro_total    |-> lucro_total,
         biomassa_total |-> biomassa_total,
         mix            |-> mix,
         payback_meses  |-> IF max_ciclo > 0 /\ lucro_total.num > 0
                            THEN Frac(custo_total_mix * max_ciclo * lucro_total.den,
                                      lucro_total.num)
                            ELSE Frac(0, 1)]
ResultadoOtimo(s, md, q) ==
    LET mix == Mix(md, q)
        n == Len(mix)
        custo_total_mix ==
            Soma([i \in 1..Len(md) |-> q[i] * md[i].custo_un], Len(md))
        biomassa_total == Soma([k \in 1..n |-> mix[k].peso], n)
        max_ciclo ==
            IF n = 0 THEN 0
            ELSE CHOOSE c \in {mix[k].ciclo : k \in 1..n} :
                    \A k \in 1..n : mix[k].ciclo <= c
        custo_total_mix_final == custo_total_mix + s.custo_fixo_mensal * max_ciclo
        lucro_total == Reduzida(Objetivo(md, q), Denominador(md))
    IN  [status         |-> "OTIMO",
         lucro_total    |-> lucro_total,
         biomassa_total |-> biomassa_total,
         mix            |-> mix,
         payback_meses  |-> IF max_ciclo > 0 /\ lucro_total.num > 0
                            THEN Frac(custo_total_mix_final * max_ciclo * lucro_total.den,
                                      lucro_total.num)
                            ELSE Frac(0, 1)]

\* lines 175-276: every result the function can return (the solver may break
\* ties between optimal assignments either way)
otimizar_mix_ideal(s, db, meta_minima_kg) ==
    LET md == ModelData(s, db)
        F == Factiveis(s, md, meta_minima_kg)
    IN  IF F = {}
        THEN { [status |-> "IMPOSSIVEL", motivo |-> "Recursos insuficientes."] }
        ELSE { ResultadoOtimo(s, md, q) : q \in Otimas(md, F) }

\* ------------------------------------------------------------------- state
VARIABLES
    especies_db,   \* OtimizacaoApp.especies_db: the catalogue ler_tabela loaded
    sis,           \* the SistemaProdutivo of the current run
    meta_kg,       \* the minimum production target of the current run
    pc,            \* where the run is
    idx,           \* simular_cenarios: position of the loop over especies_db
    resultados,    \* simular_cenarios: its local list of outcomes
    ranking,       \* what simular_cenarios returned
    opt,           \* what otimizar_mix_ideal returned
    chamadas,      \* calls of otimizar_mix_ideal made by the current run
    erro           \* the exception that ended the run, if any

vars == << especies_db, sis, meta_kg, pc, idx, resultados, ranking, opt, chamadas, erro >>

Nenhum == [status |-> "NENHUM"]

Parado == {"ocioso", "fim", "excecao", "erro_entrada"}

\* OtimizacaoApp.__init__: the catalogue is loaded once; the form is empty
Init ==
    /\ especies_db \in Catalogos
    /\ sis = Nenhum
    /\ meta_kg = 0
    /\ pc = "ocioso"
    /\ idx = 0
    /\ resultados = << >>
    /\ ranking = << >>
    /\ opt = Nenhum
    /\ chamadas = 0
    /\ erro = "nenhum"

\* run_simulation, lines 338-345 and 354: a field that is not a number
RunSimulationInvalida ==
    /\ pc \in Parado
    /\ pc' = "erro_entrada"
    /\ erro' = "ValueError"
    /\ sis' = Nenhum
    /\ meta_kg' = 0
    /\ idx' = 0
    /\ resultados' = << >>
    /\ ranking' = << >>
    /\ opt' = Nenhum
    /\ chamadas' = 0
    /\ UNCHANGED especies_db

\* run_simulation, lines 338-350: the form is read, the SistemaProdutivo is built
\* and simular_cenarios is entered
RunSimulation ==
    /\ pc \in Parado
    /\ \E e \in Entradas(especies_db) :
          /\ sis' = SistemaProdutivo(e.capital, e.qtd_tanques, e.vol_tanque,
                                     e.custo_fixo, e.sistema_opcao)
          /\ meta_kg' = e.meta_kg
    /\ pc' = "simulando"
    /\ idx' = 1
    /\ resultados' = << >>
    /\ ranking' = << >>
    /\ opt' = Nenhum
    /\ chamadas' = 0
    /\ erro' = "nenhum"
    /\ UNCHANGED especies_db

\* simular_cenarios, lines 80-167: the loop body for the next species; an
\* exception leaves simular_cenarios and run_simulation (only ValueError is caught)
SimularPasso ==
    /\ pc = "simulando"
    /\ idx <= Len(especies_db)
    /\ LET r == SimularEspecie(sis, especies_db[idx])
       IN  IF r.status = "RAISE"
           THEN /\ pc' = "excecao"
                /\ erro' = r.erro
                /\ UNCHANGED << idx, resultados >>
           ELSE /\ resultados' = Append(resultados, r)
                /\ idx' = idx + 1
                /\ UNCHANGED << pc, erro >>
    /\ UNCHANGED << especies_db, sis, meta_kg, ranking, opt, chamadas >>

\* simular_cenarios, line 170: the viable outcomes, best monthly profit first
SimularRetorno ==
    /\ pc = "simulando"
    /\ idx > Len(especies_db)
    /\ ranking' = Ordenar(Viaveis(resultados))
    /\ pc' = "relatorio"
    /\ UNCHANGED << especies_db, sis, meta_kg, idx, resultados, opt, chamadas, erro >>

\* gerar_relatorio_gui, lines 360-362: nothing viable, the report ends there
RelatorioSemViavel_sem_retorno ==
    /\ pc = "relatorio"
    /\ ranking = << >>
    /\ opt' \in otimizar_mix_ideal(sis, especies_db, meta_kg)
    /\ chamadas' = chamadas + 1
    /\ pc' = "fim"
    /\ UNCHANGED << especies_db, sis, meta_kg, idx, resultados, ranking, erro >>
RelatorioSemViavel ==
    /\ pc = "relatorio"
    /\ ranking = << >>
    /\ pc' = "fim"
    /\ UNCHANGED << especies_db, sis, meta_kg, idx, resultados, ranking, opt, chamadas, erro >>

\* gerar_relatorio_gui, lines 364-440: the ranking is shown, then the mix
RelatorioComMix ==
    /\ pc = "relatorio"
    /\ ranking # << >>
    /\ opt' \in otimizar_mix_ideal(sis, especies_db, meta_kg)
    /\ chamadas' = chamadas + 1
    /\ pc' = "fim"
    /\ UNCHANGED << especies_db, sis, meta_kg, idx, resultados, ranking, erro >>

Next ==
    \/ RunSimulationInvalida
    \/ RunSimulation
    \/ SimularPasso
    \/ SimularRetorno
    \/ RelatorioSemViavel
    \/ RelatorioComMix

Spec == Init /\ [][Next]_vars

\* ------------------------------------------- otimizar_mix_ideal on its own
\* The function applied directly to a catalogue and a SistemaProdutivo, as a
\* caller of the core would.
InitNucleo ==
    /\ especies_db \in Catalogos
    /\ \E e \in Entradas(especies_db) :
          /\ sis = SistemaProdutivo(e.capital, e.qtd_tanques, e.vol_tanque,
                                    e.custo_fixo, e.sistema_opcao)
          /\ meta_kg = e.meta_kg
    /\ pc = "nucleo"
    /\ idx = 0
    /\ resultados = << >>
    /\ ranking = << >>
    /\ opt = Nenhum
    /\ chamadas = 0
    /\ erro = "nenhum"

OtimizarChamada ==
    /\ pc = "nucleo"
    /\ opt' \in otimizar_mix_ideal(sis, especies_db, meta_kg)
    /\ chamadas' = chamadas + 1
    /\ pc' = "otimizado"
    /\ UNCHANGED << especies_db, sis, meta_kg, idx, resultados, ranking, erro >>

NextNucleo == OtimizarChamada

SpecNucleo == InitNucleo /\ [][NextNucleo]_vars

\* ------------------------------------------------ the claims' vocabulary
\* The quantities of the specification, written from its formulas.
variableCostPerFish(esp) ==
    esp.custo_alevino_un
        + (esp.peso_final_ideal_kg * 10 - esp.peso_inicial)
            * esp.conversao_alimentar * esp.custo_racao_kg

physicalMaxCount(s, esp) ==
    (s.qtd_tanques * s.vol_por_tanque * esp.densidade_max_kg_m3 * s.fator_sistema)
        \div (100 * esp.peso_final_ideal_kg)

operatingBudget(s, esp) == s.capital_giro - s.custo_fixo_mensal * esp.tempo_ciclo_meses

financialMaxCount(s, esp) == operatingBudget(s, esp) \div variableCostPerFish(esp)

Min(a, b) == IF a <= b THEN a ELSE b

SimuladorRetornou == pc \in {"relatorio", "fim"}

\* ---------------------------------------------------------------- claims
\* C1: law of the minimum. Every outcome simular_cenarios reports as viable has
\* stockingQuantity = min(physicalMaxCount, financialMaxCount) and
\* stockingQuantity > 0.
C1_LeiDoMinimo ==
    \A k \in 1..Len(ranking) :
        LET r == ranking[k]
        IN  /\ r.status = "VIAVEL"
            /\ r.qtd_povoamento = Min(physicalMaxCount(sis, r.dados_tec),
                                      financialMaxCount(sis, r.dados_tec))
            /\ r.qtd_povoamento > 0

\* a ranking with one species held back by money and one held back by space
C1_Witness ==
    /\ SimuladorRetornou
    /\ \E k \in 1..Len(ranking) :
          financialMaxCount(sis, ranking[k].dados_tec)
              < physicalMaxCount(sis, ranking[k].dados_tec)
    /\ \E k \in 1..Len(ranking) :
          physicalMaxCount(sis, ranking[k].dados_tec)
              < financialMaxCount(sis, ranking[k].dados_tec)

\* C2: ranking invariant. The list simular_cenarios returns is ordered by
\* monthlyProfit, non-increasing, and holds exactly the species computed as
\* viable, each once.
C2_Ranking ==
    SimuladorRetornou =>
        /\ \A k \in 1..(Len(ranking) - 1) :
              FracGeq(ranking[k].lucro_mensal, ranking[k + 1].lucro_mensal)
        /\ { ranking[k].especie : k \in 1..Len(ranking) }
              = { resultados[i].especie :
                    i \in { j \in 1..Len(resultados) : resultados[j].status = "VIAVEL" } }
        /\ \A k, l \in 1..Len(ranking) :
              ranking[k].especie = ranking[l].especie => k = l

\* a ranking that is not in catalogue order: the later species earns more
C2_Witness ==
    /\ SimuladorRetornou
    /\ Len(ranking) >= 2
    /\ ranking[1].especie > ranking[2].especie
    /\ FracGt(ranking[1].lucro_mensal, ranking[2].lucro_mensal)

\* C5: infeasible species are reported, not dropped. The Simulator's output
\* holds exactly one outcome for every species of the catalogue, viable or
\* infeasible with a reason tag; a species with physicalMaxCount = 0 appears in
\* it as infeasible.
C5_InviaveisReportados ==
    SimuladorRetornou =>
        \A i \in 1..Len(especies_db) :
            /\ Cardinality({ k \in 1..Len(ranking) :
                                ranking[k].especie = especies_db[i].nome }) = 1
            /\ physicalMaxCount(sis, especies_db[i]) = 0 =>
                  \E k \in 1..Len(ranking) :
                      /\ ranking[k].especie = especies_db[i].nome
                      /\ ranking[k].status = "INVIAVEL"

\* C7: bottleneck consistency. A viable outcome is tagged Financial exactly when
\* financialMaxCount < physicalMaxCount; Physical means occupancy = 100%,
\* Financial means occupancy < 100%.
C7_Gargalo ==
    \A k \in 1..Len(ranking) :
        LET r == ranking[k]
            fin == financialMaxCount(sis, r.dados_tec)
            fis == physicalMaxCount(sis, r.dados_tec)
        IN  /\ r.gargalo \in {"FINANCEIRO", "FISICO"}
            /\ r.gargalo = "FINANCEIRO" <=> fin < fis
            /\ r.gargalo = "FISICO" => FracEq(r.ocupacao, Frac(100, 1))
            /\ r.gargalo = "FINANCEIRO" => FracGt(Frac(100, 1), r.ocupacao)

\* a tie between the two ceilings, and a species held back by money
C7_Witness ==
    /\ SimuladorRetornou
    /\ \E k \in 1..Len(ranking) :
          financialMaxCount(sis, ranking[k].dados_tec)
              = physicalMaxCount(sis, ranking[k].dados_tec)
    /\ \E k \in 1..Len(ranking) : ranking[k].gargalo = "FINANCEIRO"

\* C9: the reference scenario. Species A alone, capital 10000, 2 tanks of 5 m3,
\* monthly fixed cost 200, intensive: one viable outcome with physicalMaxCount
\* 500, financialMaxCount 1491, stockingQuantity 500, bottleneck Physical,
\* survivors 450, soldBiomassKg 450, totalCost 4150, revenue 4500, netProfit 350.
CenarioRodou ==
    /\ SimuladorRetornou
    /\ especies_db = CatalogoCenario
    /\ sis = SistemaProdutivo(EntradaCenario.capital, EntradaCenario.qtd_tanques,
                              EntradaCenario.vol_tanque, EntradaCenario.custo_fixo,
                              EntradaCenario.sistema_opcao)

C9_Cenario ==
    CenarioRodou =>
        /\ Len(ranking) = 1
        /\ ranking[1].status = "VIAVEL"
        /\ max_fisico(sis, EspecieA) = 500
        /\ max_financeiro(sis, EspecieA) = 1491
        /\ ranking[1].qtd_povoamento = 500
        /\ ranking[1].gargalo = "FISICO"
        /\ ranking[1].peixes_finais = 450
        /\ ranking[1].biomassa_kg = 450
        /\ ranking[1].custo_total = 415000
        /\ ranking[1].receita = 450000
        /\ ranking[1].lucro_liquido = 35000

C9_Witness == CenarioRodou /\ Len(ranking) = 1

\* ---- the mix problem as the specification states it, over the catalogue
\* positions; a species without physical capacity is not eligible and gets 0
Elegivel(s, db, i) == physicalMaxCount(s, db[i]) > 0

TetoDe(s, db, i) == IF Elegivel(s, db, i) THEN physicalMaxCount(s, db[i]) ELSE 1

\* the common denominator of the shares
Comum(s, db) == Produto([i \in 1..Len(db) |-> TetoDe(s, db, i)], Len(db))

Quantidades(s, db) ==
    LET tetos == [i \in 1..Len(db) |-> physicalMaxCount(s, db[i])]
        teto == IF Len(db) = 0 THEN 0
                ELSE CHOOSE m \in {tetos[i] : i \in 1..Len(db)} :
                        \A i \in 1..Len(db) : tetos[i] <= m
    IN  { q \in [1..Len(db) -> 0..teto] : \A i \in 1..Len(db) : q[i] <= tetos[i] }

DentroDoOrcamento(s, db, q) ==
    Soma([i \in 1..Len(db) |-> variableCostPerFish(db[i]) * q[i]], Len(db))
        <= s.capital_giro

DentroDoEspaco(s, db, q) ==
    LET c == Comum(s, db)
    IN  Soma([i \in 1..Len(db) |-> q[i] * (c \div TetoDe(s, db, i))], Len(db)) <= c

AtingeMeta(db, meta, q) ==
    Soma([i \in 1..Len(db) |-> q[i] * db[i].peso_final_ideal_kg], Len(db)) >= meta

\* sum of unitProfit_i * quantity_i, times Comum(s, db)
LucroDoMix(s, db, q) ==
    LET c == Comum(s, db)
    IN  Soma([i \in 1..Len(db) |->
                ((db[i].peso_final_ideal_kg * db[i].valor_mercado_kg * 100
                     - variableCostPerFish(db[i])) * TetoDe(s, db, i)
                   - s.custo_fixo_mensal * db[i].tempo_ciclo_meses)
                * (c \div TetoDe(s, db, i)) * q[i]],
             Len(db))

MixesPossiveis(s, db, meta) ==
    { q \in Quantidades(s, db) :
        /\ DentroDoOrcamento(s, db, q)
        /\ DentroDoEspaco(s, db, q)
        /\ meta > 0 => AtingeMeta(db, meta, q) }

\* the quantity a returned mix gives to the species at catalogue position i
QtdNoMix(mix, db, i) ==
    LET ks == { k \in 1..Len(mix) : mix[k].especie = db[i].nome }
    IN  IF ks = {} THEN 0 ELSE mix[CHOOSE k \in ks : TRUE].qtd

QuantidadesDe(mix, db) == [i \in 1..Len(db) |-> QtdNoMix(mix, db, i)]

Otimizou == pc \in {"otimizado", "fim"} /\ opt.status = "OTIMO"

\* C3: budget and space feasibility of the mix. An Optimal result reports
\* non-negative integer quantities of eligible species whose variable cost is
\* within the capital and whose shares quantity_i / physicalMaxCount_i sum to at
\* most 1; the reported occupancy percentages sum to at most 100.
C3_MixFactivel ==
    Otimizou =>
        LET q == QuantidadesDe(opt.mix, especies_db)
            n == Len(opt.mix)
            dens == Produto([k \in 1..n |-> opt.mix[k].ocupacao.den], n)
        IN  /\ \A k \in 1..n :
                  /\ opt.mix[k].qtd \in Nat
                  /\ \E i \in 1..Len(especies_db) :
                        /\ especies_db[i].nome = opt.mix[k].especie
                        /\ Elegivel(sis, especies_db, i)
            /\ DentroDoOrcamento(sis, especies_db, q)
            /\ DentroDoEspaco(sis, especies_db, q)
            /\ Soma([k \in 1..n |->
                        opt.mix[k].ocupacao.num * (dens \div opt.mix[k].ocupacao.den)], n)
                  <= 100 * dens

\* a mix of two species that leaves no money for one more fish of either
C3_Witness ==
    /\ pc = "otimizado"
    /\ opt.status = "OTIMO"
    /\ Len(opt.mix) = 2
    /\ \A k \in 1..2 :
          Soma([i \in 1..Len(especies_db) |->
                  variableCostPerFish(especies_db[i])
                      * QtdNoMix(opt.mix, especies_db, i)], Len(especies_db))
            + variableCostPerFish(especies_db[opt.mix[k].especie]) > sis.capital_giro

\* C4: target satisfaction. With a target > 0 an Optimal result has
\* totalBiomass >= target; when no assignment meets budget, space and target
\* (also with no eligible species) the result is Infeasible; with target 0 no
\* target is imposed, so the result is never Infeasible.
C4_Meta ==
    pc = "otimizado" =>
        /\ opt.status \in {"OTIMO", "IMPOSSIVEL"}
        /\ (meta_kg > 0 /\ opt.status = "OTIMO") => opt.biomassa_total >= meta_kg
        /\ (~ \E q \in MixesPossiveis(sis, especies_db, meta_kg) : TRUE)
              => opt.status = "IMPOSSIVEL"
        /\ meta_kg = 0 => opt.status = "OTIMO"

\* the target could be met only at a loss, and was met
C4_Witness ==
    /\ pc = "otimizado"
    /\ meta_kg > 0
    /\ opt.status = "OTIMO"
    /\ opt.lucro_total.num < 0
    /\ opt.biomassa_total >= meta_kg

\* C6: mix optimality. An Optimal result's totalProfit is the largest value of
\* sum_i unitProfit_i * quantity_i over the assignments to the eligible species
\* that meet the budget, space and target constraints.
C6_MixOtimo ==
    (pc = "otimizado" /\ opt.status = "OTIMO") =>
        LET P == MixesPossiveis(sis, especies_db, meta_kg)
            lucros == { LucroDoMix(sis, especies_db, q) : q \in P }
        IN  /\ P # {}
            /\ \E v \in lucros :
                  /\ \A w \in lucros : v >= w
                  /\ opt.lucro_total = Reduzida(v, Comum(sis, especies_db))

\* a profitable mix of two species
C6_Witness ==
    /\ pc = "otimizado"
    /\ opt.status = "OTIMO"
    /\ Len(opt.mix) = 2
    /\ opt.lucro_total.num > 0

\* the data-model invariant of the species records
DataModelInvariant(db) ==
    \A i \in 1..Len(db) :
        /\ db[i].peso_final_ideal_kg * 10 > db[i].peso_inicial
        /\ db[i].peso_inicial > 0
        /\ db[i].valor_mercado_kg >= 0
        /\ db[i].custo_alevino_un >= 0
        /\ db[i].custo_racao_kg >= 0
        /\ db[i].tempo_ciclo_meses > 0
        /\ db[i].taxa_mortalidade \in 0..99

\* C8: no exception escapes the core. For a catalogue within the data-model
\* invariant and a valid ProductionSystem, simular_cenarios completes and never
\* raises a division by zero.
C8_SemExcecao == DataModelInvariant(especies_db) => pc # "excecao"

\* C10 as stated: every run that passes input validation calls the Optimizer
\* exactly once and has one MixAllocation, also when the ranking is empty.
C10_UmMixPorRodada == pc = "fim" => (chamadas = 1 /\ opt # Nenhum)

\* C10 as amended: a run that passes input validation calls the Optimizer at
\* most once; a finished run called it exactly once and has a MixAllocation when
\* simular_cenarios returned a non-empty ranking, and did not call it when the
\* ranking is empty.
C10_MixSoComRanking ==
    /\ chamadas <= 1
    /\ pc # "fim" => (chamadas = 0 /\ opt = Nenhum)
    /\ (pc = "fim" /\ ranking # << >>) => (chamadas = 1 /\ opt # Nenhum)
    /\ (pc = "fim" /\ ranking = << >>) => (chamadas = 0 /\ opt = Nenhum)

\* a finished run over a non-empty catalogue whose ranking is empty
C10_Witness ==
    /\ pc = "fim"
    /\ especies_db # << >>
    /\ ranking = << >>
    /\ chamadas = 0

\* the tag the specification gives a species, defined when its variable cost
\* is not zero
ClasseDe(s, esp) ==
    IF operatingBudget(s, esp) <= 0 THEN "FixedCostExceedsCapital"
    ELSE IF Min(physicalMaxCount(s, esp), financialMaxCount(s, esp)) <= 0
         THEN "InsufficientCapital"
         ELSE "Viable"

\* the tag of an outcome simular_cenarios built
TagDe(r) ==
    IF r.status = "VIAVEL" THEN "Viable"
    ELSE IF r.motivo = "Custo fixo excede capital." THEN "FixedCostExceedsCapital"
    ELSE "InsufficientCapital"

\* the species simular_cenarios has gone through, the one that raised included
Processada(i) == i < idx \/ (i = idx /\ pc = "excecao")

\* C11: infeasibility reason classification. Every species the Simulator goes
\* through gets an outcome: FixedCostExceedsCapital exactly when capital -
\* monthlyFixedCost * cycleMonths <= 0 (first, whatever physicalMaxCount is),
\* InsufficientCapital exactly when that budget is > 0 and min(physicalMaxCount,
\* financialMaxCount) <= 0, and Viable in every other case.
C11_Classificacao ==
    \A i \in 1..Len(especies_db) :
        (Processada(i) /\ variableCostPerFish(especies_db[i]) > 0) =>
            /\ i <= Len(resultados)
            /\ resultados[i].especie = especies_db[i].nome
            /\ TagDe(resultados[i]) = ClasseDe(sis, especies_db[i])

\* ---- the payback of a mix as the specification states it
\* the catalogue positions of the species a mix stocks
NoMix(mix, db) == { i \in 1..Len(db) : QtdNoMix(mix, db, i) > 0 }

\* the largest cycle among the species with quantity > 0, 0 when there is none
MaxCycle(mix, db) ==
    LET ciclos == { db[i].tempo_ciclo_meses : i \in NoMix(mix, db) }
    IN  IF ciclos = {} THEN 0
        ELSE CHOOSE c \in ciclos : \A d \in ciclos : d <= c

TotalVariableCost(mix, db) ==
    Soma([i \in 1..Len(db) |-> variableCostPerFish(db[i]) * QtdNoMix(mix, db, i)],
         Len(db))

\* (totalVariableCost + monthlyFixedCost * max_cycle) / (totalProfit / max_cycle)
\* when totalProfit / max_cycle > 0, else 0
PaybackEsperado(s, db, o) ==
    LET mc == MaxCycle(o.mix, db)
    IN  IF mc > 0 /\ o.lucro_total.num > 0
        THEN Reduzida((TotalVariableCost(o.mix, db) + s.custo_fixo_mensal * mc)
                          * mc * o.lucro_total.den,
                      o.lucro_total.num)
        ELSE Frac(0, 1)

\* C12: mix payback sentinel. An Optimal result's payback is (totalVariableCost
\* + monthlyFixedCost * max_cycle) / (totalProfit / max_cycle) when totalProfit /
\* max_cycle > 0 and 0 otherwise, max_cycle being the largest cycle among the
\* species with quantity > 0; with no species selected the payback is 0.
C12_PaybackDoMix ==
    (pc = "otimizado" /\ opt.status = "OTIMO") =>
        /\ Reduzida(opt.payback_meses.num, opt.payback_meses.den)
              = PaybackEsperado(sis, especies_db, opt)
        /\ opt.mix = << >> => opt.payback_meses = Frac(0, 1)

\* a profitable mix of two species with different cycles, under a fixed cost
C12_Witness ==
    /\ pc = "otimizado"
    /\ opt.status = "OTIMO"
    /\ Len(opt.mix) = 2
    /\ opt.mix[1].ciclo # opt.mix[2].ciclo
    /\ sis.custo_fixo_mensal > 0
    /\ opt.payback_meses.num > 0

\* an Optimal result that stocks nothing
C12_SemEspecies ==
    /\ pc = "otimizado"
    /\ opt.status = "OTIMO"
    /\ opt.mix = << >>
    /\ especies_db # << >>

\* C13: affordability of the Simulator. Every viable outcome has totalCost =
\* fingerlingSpend + feedSpend + fixedCostForCycle <= capital (stockingQuantity *
\* variableCostPerFish <= capital - fixedCostForCycle), and survivors <=
\* stockingQuantity <= physicalMaxCount, so its occupancy lies in (0, 100].
C13_CabeNoCapital ==
    \A k \in 1..Len(ranking) :
        LET r == ranking[k]
            esp == r.dados_tec
        IN  /\ r.custo_total = r.custo_alevinos + r.custo_racao + r.custo_fixo
            /\ r.custo_fixo = sis.custo_fixo_mensal * esp.tempo_ciclo_meses
            /\ r.custo_alevinos + r.custo_racao
                  = r.qtd_povoamento * variableCostPerFish(esp)
            /\ r.custo_total <= sis.capital_giro
            /\ r.qtd_povoamento * variableCostPerFish(esp) <= operatingBudget(sis, esp)
            /\ r.peixes_finais <= r.qtd_povoamento
            /\ r.qtd_povoamento <= physicalMaxCount(sis, esp)
            /\ r.ocupacao.num > 0
            /\ FracGeq(Frac(100, 1), r.ocupacao)

\* a species under a fixed cost, held back by money: one more fish would not
\* fit in the capital
C13_Witness ==
    /\ SimuladorRetornou
    /\ \E k \in 1..Len(ranking) :
          /\ ranking[k].gargalo = "FINANCEIRO"
          /\ ranking[k].custo_fixo > 0
          /\ ranking[k].custo_total + variableCostPerFish(ranking[k].dados_tec)
                > sis.capital_giro
          /\ ranking[k].peixes_finais < ranking[k].qtd_povoamento

====
